---- MODULE Spec2Model ----
(***************************************************************************)
(* Model of the journaling application: the emotion aggregator of          *)
(* pages/analysis_page.py and the journal entry store client of            *)
(* pages/journal_page.py.                                                  *)
(*                                                                         *)
(* Numbers.  An emotion intensity is a decimal given in tenths (5 is 0.5), *)
(* a cell of the frame is the record [nan, val] so that the NaN pandas     *)
(* puts in a missing cell is a value.                                      *)
(*  - emotion_score: the EMOTION_RATIOS are in tenths (8 is 0.8) and the   *)
(*    score is in hundredths (100 is 1.0), computed exactly.               *)
(*  - column means: computed as the code computes them, in IEEE-754        *)
(*    doubles, the sum accumulated in row order and rounded to nearest     *)
(*    even after each addition, then divided by the count.  The double x   *)
(*    is held as the integers K, E (and n for a mean) with                 *)
(*        x = (K * 2^60 + E) / (10 * n * 2^60),                            *)
(*    K / (10 * n) being the decimal it stands for and E its rounding      *)
(*    error, so that rounding needs small integers only.                   *)
(***************************************************************************)
EXTENDS Integers, Sequences, FiniteSets, TLC

VARIABLES
    entries,    \* response.data: the rows the analysis page got from the store
    ret,        \* the aggregator function called last and what it returned
    store,      \* the rows of the "documents" table
    nextId,     \* the id the store gives the next inserted row
    pc,         \* per writer: where it is in save_or_update_journal_entry
    call,       \* per writer: the (date, text) arguments of the running call
    existing,   \* per writer: existing_entry, the result of the lookup
    last,       \* per writer: the outcome of its last completed save
    fetched,    \* per writer: its last get_journal_entry_by_date since the last write
    sess,       \* per session of the analysis page: its frames, where it is in
                \* the aggregator function it runs, what its last call returned
    chat,       \* st.session_state of the chat page, and its last relay call
    page        \* the journal page: the environment, st.session_state, the
                \* date widget, and what its last run did

vars == <<entries, ret, store, nextId, pc, call, existing, last, fetched, sess, chat, page>>

aggVars == <<entries, ret, sess>>
storeVars == <<store, nextId, pc, call, existing, last, fetched>>

----------------------------------------------------------------------------
(* Bounds *)

MaxScoreEntries == 2
MaxSummaryEntries == 3
MaxRows == 3

----------------------------------------------------------------------------
(* Floats *)

NaN == [nan |-> TRUE, val |-> 0]
Num(v) == [nan |-> FALSE, val |-> v]

\* Series * scalar, cell by cell: NaN stays NaN
FloatMul(a, k) == IF a.nan THEN NaN ELSE Num(a.val * k)

\* Series += Series, cell by cell: NaN on either side gives NaN
FloatAdd(a, b) == IF a.nan \/ b.nan THEN NaN ELSE Num(a.val + b.val)

RECURSIVE Pow2(_)
Pow2(n) == IF n = 0 THEN 1 ELSE 2 * Pow2(n - 1)

\* 2^n modulo m
RECURSIVE Pow2Mod(_, _)
Pow2Mod(n, m) == IF n = 0 THEN 1 % m ELSE (2 * Pow2Mod(n - 1, m)) % m

\* the s with 2^(s-8) <= K / (10 n) < 2^(s-7), searched from s upwards
RECURSIVE BinadeFrom(_, _, _)
BinadeFrom(K, n, s) ==
    IF Pow2(s + 1) * 10 * n <= K * 256 THEN BinadeFrom(K, n, s + 1) ELSE s

\* 2^60 modulo 20 n 2^s, for the counts n and the binades s of the model
TwoTo60Mod == [n \in 1..8, s \in 0..12 |-> Pow2Mod(60, 20 * n * Pow2(s))]

\* (K * 2^60 + E) / (10 n 2^60) rounded to the nearest double, ties to the
\* even mantissa: the doubles of its binade are the multiples of
\* ulp = 2^(s-60), that is the K * 2^60 + E that are multiples of M
RoundToDouble(K, E, n) ==
    IF K = 0 THEN [K |-> 0, E |-> 0]
    ELSE LET s0 == BinadeFrom(K, n, 0)
             s == IF K * 256 = Pow2(s0) * 10 * n /\ E < 0 THEN s0 - 1 ELSE s0
             M == 10 * n * Pow2(s)
             r2 == (K * TwoTo60Mod[n, s] + E) % (2 * M)
             r == r2 % M
             odd == r2 >= M
         IN  IF 2 * r < M \/ (2 * r = M /\ ~odd)
             THEN [K |-> K, E |-> E - r]
             ELSE [K |-> K, E |-> E + M - r]

\* the doubles of the decimals 0.0, 0.1, ..., 1.0
Tenths == [v \in 0..10 |-> RoundToDouble(v, 0, 1)]

\* the double of the decimal v / 10, as the JSON of the response is parsed
Double(v) == Tenths[v]

\* x + y on doubles
DoubleAdd(x, y) == RoundToDouble(x.K + y.K, x.E + y.E, 1)

----------------------------------------------------------------------------
(* The emotion aggregator: pages/analysis_page.py *)

EMOTION_COLUMNS == <<"joy", "sadness", "love", "anger", "fear", "surprise">>

Labels == {EMOTION_COLUMNS[k] : k \in 1..Len(EMOTION_COLUMNS)}

EMOTION_RATIOS_swapped ==
    [joy |-> 10, love |-> 8, surprise |-> 5, fear |-> -5, sadness |-> -9, anger |-> -8]

EMOTION_RATIOS ==
    [joy |-> 10, love |-> 8, surprise |-> 5, fear |-> -5, sadness |-> -8, anger |-> -9]

\* EMOTION_RATIOS.get(emotion, 0.0)
RatioGet(emotion) ==
    IF emotion \in DOMAIN EMOTION_RATIOS THEN EMOTION_RATIOS[emotion] ELSE 0

\* pd.DataFrame(response.data): the columns are the keys of all the rows, a
\* cell whose row lacks the key is NaN
DataFrame(data) ==
    LET cols == UNION {DOMAIN data[i].emotions : i \in 1..Len(data)}
    IN  [columns |-> cols,
         rows |-> [i \in 1..Len(data) |->
                     [date_entry |-> data[i].date_entry,
                      cells |-> [c \in cols |->
                                   IF c \in DOMAIN data[i].emotions
                                   THEN Num(data[i].emotions[c])
                                   ELSE NaN]]]]

\* pd.DataFrame(columns=['date-entry'] + EMOTION_COLUMNS)
EmptyFrame == [columns |-> Labels, rows |-> <<>>]

\* the frame get_emotion_scores builds from the rows of the response
FrameOf(data) == IF Len(data) > 0 THEN DataFrame(data) ELSE EmptyFrame

\* df.empty (the 'date-entry' column is always there, so: no rows)
IsEmpty(df) == Len(df.rows) = 0

\* the loop over EMOTION_COLUMNS, from its k-th label on, for row i
RECURSIVE ScoreLoop(_, _, _, _)
ScoreLoop(df, i, k, acc) ==
    IF k > Len(EMOTION_COLUMNS) THEN acc
    ELSE LET emotion == EMOTION_COLUMNS[k]
         IN  IF emotion \in df.columns
             THEN ScoreLoop(df, i, k + 1,
                    FloatAdd(acc, FloatMul(df.rows[i].cells[emotion], RatioGet(emotion))))
             ELSE ScoreLoop(df, i, k + 1, acc)

\* a bug: the rows are returned latest first
calculate_emotion_score_reversed(df) ==
    IF IsEmpty(df) THEN <<>>
    ELSE [i \in 1..Len(df.rows) |->
            [date_entry |-> df.rows[Len(df.rows) + 1 - i].date_entry,
             emotion_score |-> ScoreLoop(df, Len(df.rows) + 1 - i, 1, Num(0))]]

\* the rows (date-entry, emotion_score) of the returned frame
calculate_emotion_score(df) ==
    IF IsEmpty(df) THEN <<>>
    ELSE [i \in 1..Len(df.rows) |->
            [date_entry |-> df.rows[i].date_entry,
             emotion_score |-> ScoreLoop(df, i, 1, Num(0))]]

\* the sum of the cells of a column over the rows 1..n, accumulated in row
\* order, a NaN cell adding nothing
RECURSIVE ColumnSum(_, _, _)
ColumnSum(df, c, n) ==
    IF n = 0 THEN Double(0)
    ELSE LET cell == df.rows[n].cells[c]
         IN  DoubleAdd(ColumnSum(df, c, n - 1),
                       IF cell.nan THEN Double(0) ELSE Double(cell.val))

\* the number of cells of a column that are not NaN, rows 1..n
RECURSIVE ColumnCount(_, _, _)
ColumnCount(df, c, n) ==
    IF n = 0 THEN 0
    ELSE ColumnCount(df, c, n - 1) + (IF df.rows[n].cells[c].nan THEN 0 ELSE 1)

\* the double (K * 2^60 + E) / (10 n 2^60)
Mean(K, E, n) == [nan |-> FALSE, K |-> K, E |-> E, n |-> n]

NaNMean == [nan |-> TRUE, K |-> 0, E |-> 0, n |-> 1]

\* the_sum / count
Quotient(sum, count) ==
    LET q == RoundToDouble(sum.K, sum.E, count) IN Mean(q.K, q.E, count)

\* a bug: the missing cells count as zeros
ColumnMean_fillna(df, c) == Quotient(ColumnSum(df, c, Len(df.rows)), Len(df.rows))

\* df[c].mean(): the mean of the cells that are not NaN, NaN when there is none
ColumnMean(df, c) ==
    LET cnt == ColumnCount(df, c, Len(df.rows))
    IN  IF cnt = 0 THEN NaNMean ELSE Quotient(ColumnSum(df, c, Len(df.rows)), cnt)

\* a bug: the mean of every numeric column of the frame, df.mean(numeric_only=True)
get_emotion_summary_numeric(df) ==
    IF IsEmpty(df) THEN <<>>
    ELSE [c \in df.columns \ {"content"} |-> ColumnMean(df, c)]

\* a bug: every label is reported, 0.0 for a column that is not there
get_emotion_summary_all(df) ==
    IF IsEmpty(df) THEN <<>>
    ELSE [emotion \in Labels |->
            IF emotion \in df.columns THEN ColumnMean(df, emotion)
            ELSE Mean(0, 0, 1)]

\* the dict label -> mean; its key order is that of EMOTION_COLUMNS
get_emotion_summary(df) ==
    IF IsEmpty(df) THEN <<>>
    ELSE [emotion \in {e \in Labels : e \in df.columns} |-> ColumnMean(df, emotion)]

\* list(summary.keys()): the labels of the summary in EMOTION_COLUMNS order
SummaryKeys(summary) ==
    SelectSeq(EMOTION_COLUMNS, LAMBDA e : e \in DOMAIN summary)

\* a bug: the comparison is the wrong way round, the smallest mean wins
MeanGt_flipped(x, y) ==
    /\ ~x.nan
    /\ ~y.nan
    /\ \/ x.K * y.n < y.K * x.n
       \/ x.K * y.n = y.K * x.n /\ x.E * y.n < y.E * x.n

\* x > y on two means (False when either is NaN): the decimals decide, and
\* the rounding errors when the decimals are equal
MeanGt(x, y) ==
    /\ ~x.nan
    /\ ~y.nan
    /\ \/ x.K * y.n > y.K * x.n
       \/ x.K * y.n = y.K * x.n /\ x.E * y.n > y.E * x.n

\* a bug: a later label replaces the current one when it is merely as large
RECURSIVE MaxItem_last(_, _, _, _)
MaxItem_last(summary, keys, k, best) ==
    IF k > Len(keys) THEN best
    ELSE IF ~MeanGt(summary[best], summary[keys[k]])
         THEN MaxItem_last(summary, keys, k + 1, keys[k])
         ELSE MaxItem_last(summary, keys, k + 1, best)

\* max(items, key=lambda x: x[1]): the first item whose mean no later one exceeds
RECURSIVE MaxItem(_, _, _, _)
MaxItem(summary, keys, k, best) ==
    IF k > Len(keys) THEN best
    ELSE IF MeanGt(summary[keys[k]], summary[best])
         THEN MaxItem(summary, keys, k + 1, keys[k])
         ELSE MaxItem(summary, keys, k + 1, best)

\* ("", 0.0)
Sentinel == [label |-> "", mean |-> Mean(0, 0, 1)]

\* a bug: the test `if emotion_summary` is missing, max() of no item raises
calculate_dominant_emotion_unguarded(df) ==
    IF IsEmpty(df) THEN Sentinel
    ELSE LET emotion_summary == get_emotion_summary(df)
             keys == SummaryKeys(emotion_summary)
         IN  IF Len(keys) > 0
             THEN LET dominant == MaxItem(emotion_summary, keys, 2, keys[1])
                  IN  [label |-> dominant, mean |-> emotion_summary[dominant]]
             ELSE [label |-> "ValueError", mean |-> NaNMean]

calculate_dominant_emotion(df) ==
    IF IsEmpty(df) THEN Sentinel
    ELSE LET emotion_summary == get_emotion_summary(df)
             keys == SummaryKeys(emotion_summary)
         IN  IF Len(keys) > 0
             THEN LET dominant == MaxItem(emotion_summary, keys, 2, keys[1])
                  IN  [label |-> dominant, mean |-> emotion_summary[dominant]]
             ELSE Sentinel

\* x[1] > y[1] on two cells, as max compares them: False when either is NaN
CellGt(x, y) == ~x.nan /\ ~y.nan /\ x.val > y.val

\* max(emotions_only.items(), key=lambda x: x[1])[0]: the first key whose cell
\* no later cell exceeds
RECURSIVE MaxCell(_, _, _, _)
MaxCell(cells, keys, k, best) ==
    IF k > Len(keys) THEN best
    ELSE IF CellGt(cells[keys[k]], cells[best])
         THEN MaxCell(cells, keys, k + 1, keys[k])
         ELSE MaxCell(cells, keys, k + 1, best)

\* list(emotions_only): `emotion in row` asks for the index of the row, which
\* is the columns of the frame, so the keys are the same for every row
RowKeys(df) == SelectSeq(EMOTION_COLUMNS, LAMBDA e : e \in df.columns)

get_max_emotion(df, i) ==
    LET keys == RowKeys(df)
    IN  IF Len(keys) > 0 THEN MaxCell(df.rows[i].cells, keys, 2, keys[1]) ELSE ""

\* whether the returned frame has the column main_emotion, and that column
add_main_emotion_column(df) ==
    IF IsEmpty(df) \/ ~(\E col \in Labels : col \in df.columns)
    THEN [added |-> FALSE, main_emotion |-> <<>>]
    ELSE [added |-> TRUE,
          main_emotion |-> [i \in 1..Len(df.rows) |-> get_max_emotion(df, i)]]

----------------------------------------------------------------------------
(* Inputs of the aggregator *)

\* the rows over the labels P in which at most one label, of H, is not zero
Peaks(P, H, Vs) ==
    {[l \in P |-> 0]} \cup {[l \in P |-> IF l = h THEN v ELSE 0] : h \in H, v \in Vs}

NoLove == Labels \ {"love"}

ScorePool ==
    Peaks(Labels, Labels, {5, 10})
    \cup {[l \in Labels |-> 10]}
    \cup Peaks(NoLove, NoLove, {5})
    \cup [{"joy", "anger"} -> {0, 5}]
    \cup {<<>>}

SummaryPool ==
    Peaks(Labels, {"joy", "love", "anger"}, {8})
    \cup Peaks(Labels, {"joy"}, {1})
    \cup {[l \in NoLove |-> 0]}
    \cup {[joy |-> 5, anger |-> 0], [joy |-> 0, anger |-> 5]}
    \cup {[joy |-> 1, sadness |-> 2], [joy |-> 2, sadness |-> 1], [joy |-> 3, sadness |-> 3]}
    \cup {<<>>}

\* rows with other fields than the six labels: another label, id, content
FieldPool ==
    {[joy |-> 5, anger |-> 5], [anger |-> 5], [l \in Labels |-> 0], <<>>}
    \cup {[joy |-> 5, anger |-> 5, disgust |-> 9], [anger |-> 5, disgust |-> 9],
          [disgust |-> 9], [joy |-> 0, anger |-> 5, id |-> 7, content |-> "a"]}

\* the rows come ordered by date-entry: row i has date i
RowsFrom(pool, max) ==
    UNION {{[i \in 1..n |-> [date_entry |-> i, emotions |-> f[i]]] : f \in [1..n -> pool]}
           : n \in 0..max}

NoRet == [fn |-> "none"]

\* the sessions of the analysis page: each runs main() on its own
Sessions == {1, 2}

NoFrame == [columns |-> {}, rows |-> <<>>]

\* emotion_df = get_emotion_scores(...): every session holds a frame of its own
\* built from the rows of the store, and has called nothing yet
SessionsLoaded ==
    sess = [s \in Sessions |->
              [objs |-> [df |-> FrameOf(entries), copy |-> NoFrame],
               pc |-> "idle", target |-> "df", k |-> 0, out |-> NoRet]]

----------------------------------------------------------------------------
(* The chat relay client, utils/webhook.py, and the chat page, *)
(* pages/chat_page.py                                          *)

MaxMessages == 4

\* what the relay call can meet: no connection, an error status, a success
\* status with a body that is not JSON, that is JSON but not an object, that
\* is an object without "output", that is an object with "output"
RelayOutcomes == {"ConnectionError", "HTTPError", "NotJSON", "NotAnObject", "NoOutput", "Output"}

\* the repository pins no version of requests: response.json() raises
\* requests.exceptions.JSONDecodeError from 2.27 on, before that the
\* JSONDecodeError of json, or of simplejson when that is installed
RequestsBuilds == {"requests>=2.27", "requests<2.27", "requests<2.27 simplejson"}

\* the classes of the exception the try block raises (the class and its
\* bases), {} when it raises none
Raises(outcome, build) ==
    CASE outcome = "ConnectionError" ->
            {"ConnectionError", "RequestException", "OSError", "Exception"}
      [] outcome = "HTTPError" ->
            {"HTTPError", "RequestException", "OSError", "Exception"}
      [] outcome = "NotJSON" /\ build = "requests>=2.27" ->
            {"requests.JSONDecodeError", "InvalidJSONError", "RequestException",
             "OSError", "json.JSONDecodeError", "ValueError", "Exception"}
      [] outcome = "NotJSON" /\ build = "requests<2.27" ->
            {"json.JSONDecodeError", "ValueError", "Exception"}
      [] outcome = "NotJSON" /\ build = "requests<2.27 simplejson" ->
            {"simplejson.JSONDecodeError", "ValueError", "Exception"}
      [] outcome = "NotAnObject" -> {"AttributeError", "Exception"}
      [] OTHER -> {}

\* a bug: the last clause, except Exception, is missing
Handlers_noCatchAll ==
    <<[class |-> "RequestException", text |-> "Webhook request failed"],
      [class |-> "json.JSONDecodeError", text |-> "Failed to parse webhook response"]>>

\* the except clauses of send_message_to_llm, in their order
Handlers ==
    <<[class |-> "RequestException", text |-> "Webhook request failed"],
      [class |-> "json.JSONDecodeError", text |-> "Failed to parse webhook response"],
      [class |-> "Exception", text |-> "Unexpected error"]>>

\* the text of the first except clause, from the k-th on, that names a class
\* of the exception; "" when none does and the exception leaves the function
RECURSIVE Handle(_, _)
Handle(classes, k) ==
    IF k > Len(Handlers) THEN ""
    ELSE IF Handlers[k].class \in classes THEN Handlers[k].text
    ELSE Handle(classes, k + 1)

\* a str is the sequence of its characters (a text that is never taken
\* apart is one piece); None has none
Str(chars) == [type |-> "str", chars |-> chars]

None_ == [type |-> "NoneType", chars |-> <<>>]

\* what the user types in the chat input
UserInputs == {Str(<<"h", "i">>), Str(<<"a", " ", " ", "b">>)}

\* the value of the "output" field of the relay's answer: a text, or null
RelayOutputs == {Str(<<>>), Str(<<"o", "k">>), Str(<<" ", "a", " ", " ", "b">>), None_}

\* os.urandom: the random bits of a uuid4, here two
RandomBits == 0..3

\* a bug: the identifier is a constant
uuid4_constant(random) == 1

\* uuid.uuid4(): UUID(bytes=os.urandom(16), version=4) overwrites the version
\* and variant bits, here the low bit
uuid4(random) == (random \div 2) * 2 + 1

\* generate_session_id(): str(uuid.uuid4()), the text form of the number
generate_session_id(random) == [hex |-> uuid4(random)]

\* the pair (success, text) it returns for the answer the relay gives, with
\* the payload it posted; raised when no except clause names the exception
send_message_to_llm(session_id, message, outcome, build, output) ==
    LET classes == Raises(outcome, build)
        payload == [sessionId |-> session_id, chatInput |-> message]
    IN  IF classes = {}
        THEN [payload |-> payload, raised |-> FALSE, success |-> TRUE,
              text |-> IF outcome = "Output" THEN output
                       ELSE Str(<<"No output received from LLM">>)]
        ELSE [payload |-> payload, raised |-> Handle(classes, 1) = "",
              success |-> FALSE, text |-> Str(<<Handle(classes, 1)>>)]

NoCall == [handler |-> "none", outcome |-> "none"]

\* the "output" field of the answer, when the answer has one
Answer(outcome, output) == IF outcome = "Output" THEN <<output>> ELSE <<>>

\* st.session_state after the keys are set (lines 42-47), for a session id
NewChat(session_id, random) ==
    [messages |-> <<>>, session_id |-> session_id, show_confirmation |-> FALSE,
     random |-> random, last |-> NoCall]

\* the chat page has not run yet
ChatInit == chat = NewChat(generate_session_id(0), 0)

\* full_response.split(): the words of a text
RECURSIVE Split(_, _, _)
Split(chars, k, word) ==
    IF k > Len(chars) THEN (IF word = <<>> THEN <<>> ELSE <<word>>)
    ELSE IF chars[k] = " "
    THEN (IF word = <<>> THEN <<>> ELSE <<word>>) \o Split(chars, k + 1, <<>>)
    ELSE Split(chars, k + 1, Append(word, chars[k]))

\* displayed_message: every word followed by a blank
RECURSIVE Displayed(_, _)
Displayed(words, k) ==
    IF k > Len(words) THEN <<>> ELSE words[k] \o <<" ">> \o Displayed(words, k + 1)

\* a bug: the text of the typing effect is kept in the history
AssistantMessage_displayed(full_response) ==
    [role |-> "assistant", content |-> Str(Displayed(Split(full_response.chars, 1, <<>>), 1))]

\* {"role": "assistant", "content": full_response}
AssistantMessage(full_response) == [role |-> "assistant", content |-> full_response]

\* error_message = f"Error: {llm_response}"
ErrorMessage(llm_response) ==
    [role |-> "assistant", content |-> Str(<<"Error: ">> \o llm_response.chars)]

\* a bug: the request carries a session id of its own
RequestSession_fresh(session_id) == generate_session_id(2)

\* st.session_state.session_id, the first argument of send_message_to_llm
RequestSession(session_id) == session_id

\* user_input: the message, the relay call, the reply or the error appended;
\* a reply that is no text ends the run at full_response.split()
ChatInput(user_input, outcome, build, output) ==
    /\ Len(chat.messages) + 2 <= MaxMessages
    /\ LET user == [role |-> "user", content |-> user_input]
           result == send_message_to_llm(RequestSession(chat.session_id), user_input,
                                         outcome, build, output)
           completed == ~result.raised /\ (result.success => result.text.type = "str")
       IN  chat' = [chat EXCEPT
                      !.messages =
                          IF ~completed THEN Append(@, user)
                          ELSE IF ~result.success
                          THEN @ \o <<user, ErrorMessage(result.text)>>
                          ELSE @ \o <<user, AssistantMessage(result.text)>>,
                      !.last = [handler |-> "user_input", outcome |-> outcome, answer |-> Answer(outcome, output),
                                result |-> result,
                                run |-> IF completed THEN "completed" ELSE "raised"]]
    /\ UNCHANGED <<entries, ret, sess, storeVars, page>>

\* the session is cleared: no message, a new session id
Reset(c, random) ==
    [c EXCEPT !.messages = <<>>, !.session_id = generate_session_id(random),
              !.random = random]

\* a bug: the confirmation is asked for whatever the history holds
HasMessages_always(c) == TRUE

\* if len(st.session_state.messages) > 0:
HasMessages(c) == Len(c.messages) > 0

\* the button "Bye": the confirmation is asked for when there are messages
ChatBye(random) ==
    /\ ~chat.show_confirmation
    /\ chat' = IF HasMessages(chat)
               THEN [chat EXCEPT !.show_confirmation = TRUE,
                                 !.last = [handler |-> "Bye", outcome |-> "none"]]
               ELSE [Reset(chat, random) EXCEPT
                                 !.last = [handler |-> "Bye", outcome |-> "none"]]
    /\ UNCHANGED <<entries, ret, sess, storeVars, page>>

\* the text "You bet" sends
SaveRequest == Str(<<"Save my input as a journal entry for today.">>)

\* the button "You bet": the relay is asked to save, the session is cleared
ChatYouBet(outcome, build, output, random) ==
    /\ chat.show_confirmation
    /\ LET result == send_message_to_llm(RequestSession(chat.session_id), SaveRequest,
                                         outcome, build, output)
       IN  chat' = IF result.raised
                   THEN [chat EXCEPT !.last = [handler |-> "You bet", outcome |-> outcome, answer |-> Answer(outcome, output),
                                               result |-> result, run |-> "raised"]]
                   ELSE [Reset(chat, random) EXCEPT
                           !.show_confirmation = FALSE,
                           !.last = [handler |-> "You bet", outcome |-> outcome, answer |-> Answer(outcome, output),
                                     result |-> result, run |-> "completed"]]
    /\ UNCHANGED <<entries, ret, sess, storeVars, page>>

\* the button "Let me get out of here": the session is cleared
ChatLeave(random) ==
    /\ chat.show_confirmation
    /\ chat' = [Reset(chat, random) EXCEPT
                  !.show_confirmation = FALSE,
                  !.last = [handler |-> "Let me get out of here", outcome |-> "none"]]
    /\ UNCHANGED <<entries, ret, sess, storeVars, page>>

NextChat ==
    \/ \E user_input \in UserInputs, outcome \in RelayOutcomes, build \in RequestsBuilds,
          output \in RelayOutputs :
          ChatInput(user_input, outcome, build, output)
    \/ \E random \in RandomBits : ChatBye(random)
    \/ \E outcome \in RelayOutcomes, build \in RequestsBuilds, output \in RelayOutputs,
          random \in RandomBits :
          ChatYouBet(outcome, build, output, random)
    \/ \E random \in RandomBits : ChatLeave(random)

----------------------------------------------------------------------------
(* The journal entry store client: pages/journal_page.py *)

\* An optional value (None or a value) is the sequence <<>> or <<value>>.
None == <<>>
Some(v) == <<v>>

Writers == {1, 2}

Dates == {[year |-> 2024, month |-> 1, day |-> 1], [year |-> 2024, month |-> 1, day |-> 2]}
Texts == {"a", "b"}

\* date.isoformat(): "YYYY-MM-DD", here its three fields
isoformat(date) == <<date.year, date.month, date.day>>

\* table("documents").select("*").eq("date-entry", date_str): the matching
\* rows; the store returns them in no stated order
SelectByDate(rows, date_str) == {r \in rows : r.date_entry = date_str}

\* a bug: the .eq filter is missing, every row gets the content
StoreUpdate_unfiltered(rows, date_str, text) ==
    {[r EXCEPT !.content = text] : r \in rows}

\* a bug: the request writes nothing
StoreUpdate_noop(rows, date_str, text) == rows

\* a bug: the update deletes the rows of the date and inserts them anew
StoreUpdate_reinsert(rows, date_str, text) ==
    {IF r.date_entry = date_str THEN [r EXCEPT !.id = 0 - r.id, !.content = text] ELSE r
       : r \in rows}

\* table("documents").update({"content": text}).eq("date-entry", date_str)
StoreUpdate(rows, date_str, text) ==
    {IF r.date_entry = date_str THEN [r EXCEPT !.content = text] ELSE r : r \in rows}

\* a bug: an upsert on the date, the new row replaces the rows of its date
StoreInsert_upsert(rows, id, entry) ==
    {r \in rows : r.date_entry # entry.date_entry}
        \cup {[id |-> id, date_entry |-> entry.date_entry, content |-> entry.content]}

\* table("documents").insert(entry): a new row with the id the store assigns
StoreInsert(rows, id, entry) ==
    rows \cup {[id |-> id, date_entry |-> entry.date_entry, content |-> entry.content]}

\* a bug: the query compares the date column with a date and time string,
\* which no stored date equals
LookupResults_datetime(rows, date) ==
    LET data == SelectByDate(rows, <<date.year, date.month, date.day, 0, 0, 0>>)
    IN  IF data # {} THEN {Some(r) : r \in data} ELSE {None}

\* what get_journal_entry_by_date may return: response.data[0], or None
LookupResults(rows, date) ==
    LET data == SelectByDate(rows, isoformat(date))
    IN  IF data # {} THEN {Some(r) : r \in data} ELSE {None}

\* a bug: the third component is False in both branches
Returned_neverUpdate(success, entry_id, was_update) ==
    [outcome |-> "returned", success |-> success, entry_id |-> entry_id,
     was_update |-> FALSE]

\* return success, entry_id, was_update
Returned(success, entry_id, was_update) ==
    [outcome |-> "returned", success |-> success, entry_id |-> entry_id,
     was_update |-> was_update]

\* the call ended with an exception (or st.stop()) of a store request
Raised ==
    [outcome |-> "raised", success |-> FALSE, entry_id |-> None, was_update |-> FALSE]

\* a store that holds at most one entry per date
InitialStores ==
    {{[id |-> d.day, date_entry |-> isoformat(d), content |-> f[d]] : d \in DOMAIN f}
       : f \in UNION {[D -> Texts] : D \in SUBSET Dates}}

WritersIdle ==
    /\ nextId = Cardinality(Dates) + 1
    /\ pc = [w \in Writers |-> "idle"]
    /\ call = [w \in Writers |-> None]
    /\ existing = [w \in Writers |-> None]
    /\ last = [w \in Writers |-> None]
    /\ fetched = [w \in Writers |-> None]

StoreInit == store \in InitialStores /\ WritersIdle

\* the analysis page alone: nobody writes
StoreIdle == store = {} /\ WritersIdle

\* save_or_update_journal_entry(date, text), its lookup:
\* existing_entry = get_journal_entry_by_date(date)
SaveLookup(w, date, text) ==
    /\ pc[w] = "idle"
    /\ \E found \in LookupResults(store, date) :
          existing' = [existing EXCEPT ![w] = found]
    /\ call' = [call EXCEPT ![w] = Some([date |-> date, text |-> text])]
    /\ last' = [last EXCEPT ![w] = None]
    /\ pc' = [pc EXCEPT ![w] = "lookedUp"]
    /\ UNCHANGED <<store, nextId, fetched, aggVars, chat, page>>

\* the lookup's store request fails: the exception leaves the call
SaveLookupFails(w, date, text) ==
    /\ pc[w] = "idle"
    /\ call' = [call EXCEPT ![w] = Some([date |-> date, text |-> text])]
    /\ existing' = [existing EXCEPT ![w] = None]
    /\ last' = [last EXCEPT ![w] = Some(Raised)]
    /\ UNCHANGED <<store, nextId, pc, fetched, aggVars, chat, page>>

\* if existing_entry: update_journal_entry(date, text); return success, id, True
SaveUpdate(w) ==
    /\ pc[w] = "lookedUp"
    /\ Len(existing[w]) > 0
    /\ LET date_str == isoformat(call[w][1].date)
           data == SelectByDate(store, date_str)
       IN  /\ store' = StoreUpdate(store, date_str, call[w][1].text)
           /\ IF data # {}
              THEN \E first \in data :
                     last' = [last EXCEPT ![w] = Some(Returned(TRUE, Some(first.id), TRUE))]
              ELSE last' = [last EXCEPT ![w] = Some(Returned(FALSE, None, TRUE))]
    /\ pc' = [pc EXCEPT ![w] = "idle"]
    /\ fetched' = [v \in Writers |-> None]
    /\ UNCHANGED <<nextId, call, existing, aggVars, chat, page>>

\* else: add_journal_entry(date, text); return success, id, False
SaveAdd(w) ==
    /\ pc[w] = "lookedUp"
    /\ Len(existing[w]) = 0
    /\ Cardinality(store) < MaxRows
    /\ LET entry == [date_entry |-> isoformat(call[w][1].date), content |-> call[w][1].text]
       IN  store' = StoreInsert(store, nextId, entry)
    /\ nextId' = nextId + 1
    /\ last' = [last EXCEPT ![w] = Some(Returned(TRUE, Some(nextId), FALSE))]
    /\ pc' = [pc EXCEPT ![w] = "idle"]
    /\ fetched' = [v \in Writers |-> None]
    /\ UNCHANGED <<call, existing, aggVars, chat, page>>

\* the store request of the update or of the insert fails: nothing is written
SaveWriteFails(w) ==
    /\ pc[w] = "lookedUp"
    /\ last' = [last EXCEPT ![w] = Some(Raised)]
    /\ pc' = [pc EXCEPT ![w] = "idle"]
    /\ UNCHANGED <<store, nextId, call, existing, fetched, aggVars, chat, page>>

\* get_journal_entry_by_date(date), called on its own
Fetch(w, date) ==
    /\ pc[w] = "idle"
    /\ \E found \in LookupResults(store, date) :
          fetched' = [fetched EXCEPT ![w] = Some([date |-> date, entry |-> found])]
    /\ UNCHANGED <<store, nextId, pc, call, existing, last, aggVars, chat, page>>

----------------------------------------------------------------------------
(* The journal page run by run: main() of pages/journal_page.py with the   *)
(* functions it calls in utils/auth.py and utils/webhook.py.  page.run is  *)
(* the run: pc is where it is ("idle" between two runs), status is         *)
(* "running" until st.stop() ("halted"), an exception that nothing catches *)
(* ("raised"), st.rerun() ("rerun") or the last line ("done") ends it.     *)
(* Here a date has at most one row, so that response.data[0] is that row.  *)

\* SUPABASE_URL, SUPABASE_KEY: not set, set to the empty string, set
CredentialValues == {"missing", "", "set"}

Environments == [SUPABASE_URL : CredentialValues, SUPABASE_KEY : CredentialValues]

\* what a page run can meet at the store: the client cannot be made (no
\* credentials, no connection), a request fails, or all goes well
StoreOutcomes == {"ok", "init_fails", "request_fails"}

\* what the store answers to an insert: the new row, or no row (the row
\* stored or not)
InsertReplies == {"row", "none, stored", "none, not stored"}

\* what the post of the notification meets
WebhookOutcomes == {"ok", "ConnectionError", "HTTPError", "Exception"}

\* os.environ.get(key, None), ValueError when the variable is not set
get_env(env, key) == IF env[key] = "missing" THEN "ValueError" ELSE env[key]

\* a bug: only variables that are not set are refused, empty ones pass
get_supabase_credentials_unchecked(env) ==
    IF get_env(env, "SUPABASE_URL") = "ValueError" \/ get_env(env, "SUPABASE_KEY") = "ValueError"
    THEN "ValueError"
    ELSE "credentials"

\* url, key = get_env(...), get_env(...); if not url or not key: raise ValueError
get_supabase_credentials(env) ==
    IF get_env(env, "SUPABASE_URL") = "ValueError" \/ get_env(env, "SUPABASE_KEY") = "ValueError"
    THEN "ValueError"
    ELSE IF get_env(env, "SUPABASE_URL") = "" \/ get_env(env, "SUPABASE_KEY") = ""
    THEN "ValueError"
    ELSE "credentials"

\* a request leaves for the store
Request(r, q) == [r EXCEPT !.requests = Append(@, q)]

\* st.error, st.warning, st.success
Show(r, message) == [r EXCEPT !.shown = Append(@, message)]

\* st.stop()
Stop(r) == [r EXCEPT !.stops = @ + 1, !.status = "halted"]

\* init_supabase(): auth.get_supabase_client() checks the credentials, makes
\* the client and sends the test query; except (ValueError, ConnectionError):
\* st.error, st.stop
init_supabase(env, r, connects) ==
    IF get_supabase_credentials(env) = "ValueError"
    THEN Stop(Show(r, "error: ValueError"))
    ELSE IF connects
    THEN Request(r, [op |-> "select id limit 1"])
    ELSE Stop(Show(Request(r, [op |-> "select id limit 1"]), "error: ConnectionError"))

\* ....execute(): the request, and the exception of a failing one
Execute(r, q, answers) ==
    IF r.status # "running" THEN r
    ELSE IF answers THEN Request(r, q)
    ELSE [Request(r, q) EXCEPT !.status = "raised"]

\* supabase = init_supabase(); response = supabase.table(...)....execute()
StoreCall(env, r, q, outcome) ==
    Execute(init_supabase(env, r, outcome # "init_fails"), q, outcome # "request_fails")

\* response.data[0] if len(response.data) > 0 else None
First(data) == IF data = {} THEN None ELSE Some(CHOOSE row \in data : TRUE)

\* get_journal_entry_by_date(date): the run, and the value returned
get_journal_entry_by_date(env, r, rows, date, outcome) ==
    [r |-> StoreCall(env, r, [op |-> "select", date_entry |-> isoformat(date)], outcome),
     val |-> First(SelectByDate(rows, isoformat(date)))]

\* get_journal_entries()
get_journal_entries(env, r, rows, outcome) ==
    [r |-> StoreCall(env, r, [op |-> "select all"], outcome), val |-> rows]

\* supabase = init_supabase(); ....insert(entry).execute()
InsertRequest(env, r, entry, outcome) ==
    StoreCall(env, r, [op |-> "insert", entry |-> entry], outcome)

\* a bug: the status is True whatever the response holds
InsertStatus_always(data) ==
    [success |-> TRUE, entry_id |-> IF Len(data) > 0 THEN Some(data[1].id) ELSE None]

\* if len(response.data) > 0: return True, response.data[0].get("id")
\* else: return False, None
InsertStatus(data) ==
    IF Len(data) > 0
    THEN [success |-> TRUE, entry_id |-> Some(data[1].id)]
    ELSE [success |-> FALSE, entry_id |-> None]

\* add_journal_entry(date, text): the run, the rows of the store after it,
\* response.data and the pair (success, entry id) returned
add_journal_entry(env, r, rows, id, date, text, outcome, reply) ==
    LET entry == [date_entry |-> isoformat(date), content |-> text]
        written == outcome = "ok" /\ get_supabase_credentials(env) # "ValueError"
        data == IF written /\ reply = "row"
                THEN <<[id |-> id, date_entry |-> entry.date_entry,
                        content |-> entry.content]>>
                ELSE <<>>
    IN  [r |-> InsertRequest(env, r, entry, outcome),
         rows |-> IF written /\ reply # "none, not stored"
                  THEN StoreInsert(rows, id, entry) ELSE rows,
         data |-> data,
         result |-> InsertStatus(data)]

\* update_journal_entry(date, text)
update_journal_entry(env, r, rows, date, text, outcome) ==
    LET date_str == isoformat(date)
        written == outcome = "ok" /\ get_supabase_credentials(env) # "ValueError"
        data == IF written
                THEN First(SelectByDate(StoreUpdate(rows, date_str, text), date_str))
                ELSE <<>>
    IN  [r |-> StoreCall(env, r, [op |-> "update", date_entry |-> date_str,
                                  content |-> text], outcome),
         rows |-> IF written THEN StoreUpdate(rows, date_str, text) ELSE rows,
         data |-> data,
         result |-> InsertStatus(data)]

\* a bug: the payload lacks the body wrapper
NotificationPayload_flat(entry_id, content, date_entry) ==
    [date_entry |-> date_entry, entry |-> content]

\* payload = {"body": {"date-entry": date_entry, "entry": content}}
NotificationPayload(entry_id, content, date_entry) ==
    [body |-> [date_entry |-> date_entry, entry |-> content]]

\* webhook.send_webhook_notification(entry_id, content, date_entry): the
\* post, and every exception of it answered with (False, message)
send_webhook_notification(r, entry_id, content, date_entry, hook) ==
    [r |-> [r EXCEPT !.sent = Append(@, [payload |-> NotificationPayload(entry_id, content,
                                                                       date_entry),
                                         outcome |-> hook])],
     success |-> hook = "ok"]

\* st.session_state before the first run; .get("existing_entry_content", "")
\* and .get('show_entry_form', False) read the keys that are not there yet
NewSessionState ==
    [last_selected_date |-> None, existing_entry_content |-> "",
     existing_entry_id |-> None, show_entry_form |-> FALSE]

\* a run begins: nothing requested, nothing shown
NewRun ==
    [pc |-> "idle", status |-> "none", click |-> "none", text |-> "",
     requests |-> <<>>, shown |-> <<>>, stops |-> 0, sent |-> <<>>, form |-> None,
     widgets |-> {}, existing |-> None, response |-> <<>>, saved |-> None, before |-> {}]

\* the journal page has not run yet, the credentials are set
PageIdle ==
    page = [env |-> [SUPABASE_URL |-> "set", SUPABASE_KEY |-> "set"],
            ss |-> NewSessionState, selected_date |-> None, run |-> NewRun]

\* the run goes on at pc, or has ended
Continue(r, next) ==
    IF r.status = "running" THEN [r EXCEPT !.pc = next] ELSE [r EXCEPT !.pc = "idle"]

\* the run ends
End(r, status) == [r EXCEPT !.pc = "idle", !.status = status]

\* "last_selected_date" not in st.session_state
\*     or st.session_state.last_selected_date != selected_date
DateChanged(ss, selected_date) == ss.last_selected_date # Some(selected_date)

\* main() starts with the given widget values: the date is compared and kept
Begin(selected_date, click, journal_text) ==
    /\ page.run.pc = "idle"
    /\ page' = [page EXCEPT
                  !.selected_date = Some(selected_date),
                  !.ss.last_selected_date = Some(selected_date),
                  !.run = [NewRun EXCEPT
                             !.status = "running", !.click = click, !.text = journal_text,
                             !.before = store,
                             !.widgets = IF DateChanged(page.ss, selected_date)
                                         THEN {} ELSE {"add"},
                             !.pc = IF DateChanged(page.ss, selected_date)
                                    THEN "lookup" ELSE "list"]]
    /\ UNCHANGED <<storeVars, aggVars, chat>>

\* the page is opened, refreshed, or another date is picked
JournalOpen(selected_date) ==
    /\ page.run.status # "rerun"
    /\ Begin(selected_date, "none", "")

\* st.rerun(): the script runs again at once, the widgets as they are
JournalRerun ==
    /\ page.run.status = "rerun"
    /\ Begin(page.selected_date[1], "none", "")

\* the button "+ Add"
JournalAdd ==
    /\ page.run.status # "rerun"
    /\ "add" \in page.run.widgets
    /\ Begin(page.selected_date[1], "add", "")

\* the form's "Cancel"
JournalCancel ==
    /\ page.run.status # "rerun"
    /\ "form" \in page.run.widgets
    /\ Begin(page.selected_date[1], "cancel", "")

\* the form's "Save" with the text of the text area
JournalSave(journal_text) ==
    /\ page.run.status # "rerun"
    /\ "form" \in page.run.widgets
    /\ Begin(page.selected_date[1], "save", journal_text)

\* lines 184-191: existing_entry = get_journal_entry_by_date(selected_date),
\* its content and id kept in st.session_state; then the button "+ Add"
PageLookup(outcome) ==
    /\ page.run.pc = "lookup"
    /\ LET existing_entry == get_journal_entry_by_date(page.env, page.run, store,
                                                       page.selected_date[1], outcome)
       IN  IF existing_entry.r.status # "running"
           THEN page' = [page EXCEPT !.run = Continue(existing_entry.r, "list")]
           ELSE page' = [page EXCEPT
                   !.ss.existing_entry_content =
                       IF Len(existing_entry.val) > 0 THEN existing_entry.val[1].content ELSE "",
                   !.ss.existing_entry_id =
                       IF Len(existing_entry.val) > 0 THEN Some(existing_entry.val[1].id)
                       ELSE None,
                   !.run = [Continue(existing_entry.r, "list") EXCEPT !.widgets = {"add"}]]
    /\ UNCHANGED <<storeVars, aggVars, chat>>

\* the form as it is displayed: its prefilled text and its heading
EntryForm(ss) ==
    [initial_text |-> ss.existing_entry_content,
     heading |-> IF ss.existing_entry_content # "" THEN "Update" ELSE "New"]

\* lines 203-242: df = get_journal_entries(); the click on "+ Add"; the form
\* when it is to be shown, its Cancel, its Save with a text
PageList(outcome) ==
    /\ page.run.pc = "list"
    /\ LET df == get_journal_entries(page.env, page.run, store, outcome)
           show == page.run.click = "add" \/ page.ss.show_entry_form
       IN  IF df.r.status # "running"
           THEN page' = [page EXCEPT !.run = Continue(df.r, "form")]
           ELSE IF ~show
           THEN page' = [page EXCEPT !.run = End(df.r, "done")]
           ELSE IF page.run.click = "cancel"
           THEN page' = [page EXCEPT
                           !.ss.show_entry_form = FALSE,
                           !.run = End([df.r EXCEPT !.form = Some(EntryForm(page.ss)),
                                                    !.widgets = @ \cup {"form"}], "rerun")]
           ELSE page' = [page EXCEPT
                           !.ss.show_entry_form = TRUE,
                           !.run = [df.r EXCEPT
                                      !.form = Some(EntryForm(page.ss)),
                                      !.widgets = @ \cup {"form"},
                                      !.status = IF page.run.click = "save" /\ page.run.text # ""
                                                 THEN "running" ELSE "done",
                                      !.pc = IF page.run.click = "save" /\ page.run.text # ""
                                             THEN "saveLookup" ELSE "idle"]]
    /\ UNCHANGED <<storeVars, aggVars, chat>>

\* save_or_update_journal_entry, line 159:
\* existing_entry = get_journal_entry_by_date(date)
PageSaveLookup(outcome) ==
    /\ page.run.pc = "saveLookup"
    /\ LET existing_entry == get_journal_entry_by_date(page.env, page.run, store,
                                                       page.selected_date[1], outcome)
       IN  page' = [page EXCEPT !.run = [Continue(existing_entry.r, "saveWrite") EXCEPT
                                           !.existing = existing_entry.val]]
    /\ UNCHANGED <<storeVars, aggVars, chat>>

\* if success and entry_id:
SaveSucceeded(saved) == saved.success /\ Len(saved.entry_id) > 0

\* save_or_update_journal_entry, lines 161-168: the update or the insert; then
\* lines 247-259 of main: to the notification, or the error message
PageSaveWrite(outcome, reply) ==
    /\ page.run.pc = "saveWrite"
    /\ LET was_update == Len(page.run.existing) > 0
           w == IF was_update
                THEN update_journal_entry(page.env, page.run, store, page.selected_date[1],
                                          page.run.text, outcome)
                ELSE add_journal_entry(page.env, page.run, store, nextId,
                                       page.selected_date[1], page.run.text, outcome, reply)
           saved == [success |-> w.result.success, entry_id |-> w.result.entry_id,
                     was_update |-> was_update]
       IN  /\ store' = w.rows
           /\ nextId' = IF w.rows = store \/ was_update THEN nextId ELSE nextId + 1
           /\ page' = [page EXCEPT !.run =
                  IF w.r.status # "running" THEN Continue(w.r, "notify")
                  ELSE IF SaveSucceeded(saved)
                  THEN [w.r EXCEPT !.response = w.data, !.saved = Some(saved),
                                   !.pc = "notify"]
                  ELSE End(Show([w.r EXCEPT !.response = w.data, !.saved = Some(saved)],
                                IF EntryForm(page.ss).heading = "Update"
                                THEN "error: failed to update" ELSE "error: failed to save"),
                           "done")]
    /\ UNCHANGED <<pc, call, existing, last, fetched, aggVars, chat>>

\* lines 249-257: the notification, the warning when it failed, the success
\* message, the form closed, st.rerun()
PageNotify(hook) ==
    /\ page.run.pc = "notify"
    /\ LET saved == page.run.saved[1]
           nt == send_webhook_notification(page.run, saved.entry_id[1], page.run.text,
                                           isoformat(page.selected_date[1]), hook)
           warned == IF nt.success THEN nt.r ELSE Show(nt.r, "warning: notification failed")
       IN  page' = [page EXCEPT
                      !.ss.show_entry_form = FALSE,
                      !.run = End(Show(warned, IF saved.was_update THEN "success: updated"
                                               ELSE "success: saved"), "rerun")]
    /\ UNCHANGED <<storeVars, aggVars, chat>>

InitJournal ==
    /\ StoreInit
    /\ entries = <<>>
    /\ ret = NoRet
    /\ SessionsLoaded
    /\ ChatInit
    /\ page \in {[env |-> env, ss |-> NewSessionState, selected_date |-> None, run |-> NewRun]
                   : env \in Environments}

NextJournal ==
    \/ \E selected_date \in Dates : JournalOpen(selected_date)
    \/ JournalRerun
    \/ JournalAdd
    \/ JournalCancel
    \/ \E journal_text \in Texts \cup {""} : JournalSave(journal_text)
    \/ \E outcome \in StoreOutcomes : PageLookup(outcome)
    \/ \E outcome \in StoreOutcomes : PageList(outcome)
    \/ \E outcome \in StoreOutcomes : PageSaveLookup(outcome)
    \/ \E outcome \in StoreOutcomes, reply \in InsertReplies : PageSaveWrite(outcome, reply)
    \/ \E hook \in WebhookOutcomes : PageNotify(hook)

\* the journal page of one user
SpecJournal == InitJournal /\ [][NextJournal]_vars

AggIdle ==
    /\ entries = <<>>
    /\ ret = NoRet
    /\ SessionsLoaded
    /\ ChatInit
    /\ PageIdle

InitStore == StoreInit /\ AggIdle

\* one writer
NextSingle ==
    \/ \E date \in Dates, text \in Texts : SaveLookup(1, date, text)
    \/ \E date \in Dates, text \in Texts : SaveLookupFails(1, date, text)
    \/ SaveUpdate(1)
    \/ SaveAdd(1)
    \/ SaveWriteFails(1)
    \/ \E date \in Dates : Fetch(1, date)

SpecSingle == InitStore /\ [][NextSingle]_vars

\* two writers, each request of each a step of its own
NextRace ==
    \E w \in Writers :
        \/ \E date \in Dates, text \in Texts : SaveLookup(w, date, text)
        \/ \E date \in Dates, text \in Texts : SaveLookupFails(w, date, text)
        \/ SaveUpdate(w)
        \/ SaveAdd(w)
        \/ SaveWriteFails(w)

SpecRace == InitStore /\ [][NextRace]_vars

\* a <= b on two ISO dates
DateLeq(a, b) ==
    \/ a[1] < b[1]
    \/ a[1] = b[1] /\ a[2] < b[2]
    \/ a[1] = b[1] /\ a[2] = b[2] /\ a[3] <= b[3]

\* select("*").order("date-entry", desc=False): the rows as a list, by date;
\* rows of one date come in an order the store chooses
OrderedByDate(rows) ==
    {f \in [1..Cardinality(rows) -> rows] :
        /\ \A i, j \in 1..Cardinality(rows) : i # j => f[i] # f[j]
        /\ \A i, j \in 1..Cardinality(rows) : i < j => DateLeq(f[i].date_entry, f[j].date_entry)}

\* a row of the response as the analysis page holds it
ResponseRow(r) ==
    [date_entry |-> r.date_entry, emotions |-> [id |-> r.id, content |-> r.content]]

\* analysis_page.get_emotion_scores(): init_supabase halts the page when the
\* client cannot be made; a failing request is caught and an empty frame
\* returned, its date column left as it is; no row gives an empty frame with
\* its date column converted to datetime
GetEmotionScores(outcome) ==
    /\ pc = [w \in Writers |-> "idle"]
    /\ CASE outcome = "init_fails" ->
              /\ ret' = [fn |-> "get_emotion_scores", outcome |-> "halted",
                         failed |-> TRUE, val |-> NoFrame, date_dtype |-> "none"]
              /\ entries' = <<>>
         [] outcome = "request_fails" ->
              /\ ret' = [fn |-> "get_emotion_scores", outcome |-> "returned",
                         failed |-> TRUE, val |-> EmptyFrame, date_dtype |-> "object"]
              /\ entries' = <<>>
         [] outcome = "ok" ->
              \E data \in OrderedByDate(store) :
                  /\ entries' = [i \in 1..Len(data) |-> ResponseRow(data[i])]
                  /\ ret' = [fn |-> "get_emotion_scores", outcome |-> "returned",
                             failed |-> FALSE, val |-> FrameOf(entries'),
                             date_dtype |-> "datetime64[ns]"]
    /\ UNCHANGED <<sess, storeVars, chat, page>>

\* journal_page.get_journal_entries(): no request is inside a try
GetJournalEntries(outcome) ==
    /\ pc = [w \in Writers |-> "idle"]
    /\ CASE outcome = "init_fails" ->
              ret' = [fn |-> "get_journal_entries", outcome |-> "halted",
                      failed |-> TRUE, val |-> <<>>]
         [] outcome = "request_fails" ->
              ret' = [fn |-> "get_journal_entries", outcome |-> "raised",
                      failed |-> TRUE, val |-> <<>>]
         [] outcome = "ok" ->
              \E data \in OrderedByDate(store) :
                  ret' = [fn |-> "get_journal_entries", outcome |-> "returned",
                          failed |-> FALSE,
                          val |-> [i \in 1..Len(data) |->
                                     LET r == data[Len(data) + 1 - i]
                                     IN  [id |-> r.id, date |-> r.date_entry, text |-> r.content]]]
    /\ UNCHANGED <<entries, sess, storeVars, chat, page>>

\* app.main(): the entry count of the home page, 0 when anything fails
HomeEntryCount(outcome) ==
    /\ pc = [w \in Writers |-> "idle"]
    /\ ret' = [fn |-> "app.main", outcome |-> "returned", failed |-> outcome # "ok",
               val |-> IF outcome = "ok" THEN Cardinality(store) ELSE 0]
    /\ UNCHANGED <<entries, sess, storeVars, chat, page>>

NextReads ==
    \E outcome \in StoreOutcomes :
        \/ GetEmotionScores(outcome)
        \/ GetJournalEntries(outcome)
        \/ HomeEntryCount(outcome)

\* the pages that read the store
SpecReads == InitStore /\ [][NextReads]_vars

\* the journal page of one writer and the chat page, the chat with one user
\* text, one reply text, one build and one draw of the session id
NextChatPlain ==
    \/ \E outcome \in RelayOutcomes :
          ChatInput(Str(<<"h", "i">>), outcome, "requests>=2.27", Str(<<"o", "k">>))
    \/ ChatBye(0)
    \/ \E outcome \in RelayOutcomes :
          ChatYouBet(outcome, "requests>=2.27", Str(<<"o", "k">>), 0)
    \/ ChatLeave(0)

NextApp == NextSingle \/ NextChatPlain

SpecApp == InitStore /\ [][NextApp]_vars

\* the chat page alone
InitChat == StoreIdle /\ AggIdle

SpecChat == InitChat /\ [][NextChat]_vars

----------------------------------------------------------------------------
(* Calls of the aggregator *)

CallEmotionScore ==
    /\ ret' = [fn |-> "calculate_emotion_score",
               val |-> calculate_emotion_score(FrameOf(entries))]
    /\ UNCHANGED <<entries, sess, storeVars, chat, page>>

CallEmotionSummary ==
    /\ ret' = [fn |-> "get_emotion_summary",
               val |-> get_emotion_summary(FrameOf(entries))]
    /\ UNCHANGED <<entries, sess, storeVars, chat, page>>

CallDominantEmotion ==
    /\ ret' = [fn |-> "calculate_dominant_emotion",
               val |-> calculate_dominant_emotion(FrameOf(entries))]
    /\ UNCHANGED <<entries, sess, storeVars, chat, page>>

CallMainEmotion ==
    /\ ret' = [fn |-> "add_main_emotion_column",
               val |-> add_main_emotion_column(FrameOf(entries))]
    /\ UNCHANGED <<entries, sess, storeVars, chat, page>>

InitScore ==
    /\ entries \in RowsFrom(ScorePool, MaxScoreEntries)
    /\ ret = NoRet
    /\ SessionsLoaded
    /\ ChatInit
    /\ PageIdle
    /\ StoreIdle

NextScore == CallEmotionScore

SpecScore == InitScore /\ [][NextScore]_vars

InitSummary ==
    /\ entries \in RowsFrom(SummaryPool, MaxSummaryEntries)
    /\ ret = NoRet
    /\ SessionsLoaded
    /\ ChatInit
    /\ PageIdle
    /\ StoreIdle

NextSummary == CallEmotionSummary \/ CallDominantEmotion

SpecSummary == InitSummary /\ [][NextSummary]_vars

InitFields ==
    /\ entries \in RowsFrom(FieldPool, MaxScoreEntries)
    /\ ret = NoRet
    /\ SessionsLoaded
    /\ ChatInit
    /\ PageIdle
    /\ StoreIdle

NextFields ==
    \/ CallEmotionScore
    \/ CallEmotionSummary
    \/ CallDominantEmotion
    \/ CallMainEmotion

\* the four aggregator functions on rows that carry other fields too
SpecFields == InitFields /\ [][NextFields]_vars

----------------------------------------------------------------------------
(* The aggregator statement by statement, run by several sessions.  A frame  *)
(* is an object: objs["df"] is the frame the caller passed, objs["copy"] the *)
(* one df.copy() makes, and target names the object result_df refers to.     *)

\* a bug: no copy is made, result_df is the caller's frame
DfCopy_alias(ref) == ref

\* df.copy(): the name of the new object
DfCopy(ref) == "copy"

\* frame[c] = vals: the column is added, or replaced
WithColumn(frame, c, vals) ==
    [columns |-> frame.columns \cup {c},
     rows |-> [i \in 1..Len(frame.rows) |->
                 [date_entry |-> frame.rows[i].date_entry,
                  cells |-> [x \in frame.columns \cup {c} |->
                               IF x = c THEN vals[i] ELSE frame.rows[i].cells[x]]]]]

Running(s, fn) == sess[s].pc = fn

Return(s, objs, fn, val) ==
    sess' = [sess EXCEPT ![s] = [objs |-> objs, pc |-> "idle", target |-> "df",
                                  k |-> 0, out |-> [fn |-> fn, val |-> val]]]

\* calculate_emotion_score(df) up to the loop: the test of df.empty, the copy,
\* result_df['emotion_score'] = 0.0
ScoreBegin(s) ==
    /\ Running(s, "idle")
    /\ LET df == sess[s].objs["df"]
           target == DfCopy("df")
           copied == [sess[s].objs EXCEPT ![target] = df]
           zeros == [i \in 1..Len(df.rows) |-> Num(0)]
       IN  IF IsEmpty(df)
           THEN Return(s, sess[s].objs, "calculate_emotion_score", <<>>)
           ELSE sess' = [sess EXCEPT ![s] =
                    [objs |-> [copied EXCEPT
                                 ![target] = WithColumn(copied[target], "emotion_score", zeros)],
                     pc |-> "calculate_emotion_score", target |-> target, k |-> 1,
                     out |-> NoRet]]
    /\ UNCHANGED <<entries, ret, storeVars, chat, page>>

\* one turn of the loop over EMOTION_COLUMNS
ScoreStep(s) ==
    /\ Running(s, "calculate_emotion_score")
    /\ sess[s].k <= Len(EMOTION_COLUMNS)
    /\ LET result_df == sess[s].objs[sess[s].target]
           emotion == EMOTION_COLUMNS[sess[s].k]
           added == [i \in 1..Len(result_df.rows) |->
                       FloatAdd(result_df.rows[i].cells["emotion_score"],
                                FloatMul(result_df.rows[i].cells[emotion], RatioGet(emotion)))]
       IN  sess' = [sess EXCEPT
                      ![s].k = @ + 1,
                      ![s].objs[sess[s].target] =
                          IF emotion \in result_df.columns
                          THEN WithColumn(result_df, "emotion_score", added)
                          ELSE result_df]
    /\ UNCHANGED <<entries, ret, storeVars, chat, page>>

\* return result_df[['date-entry', 'emotion_score']]
ScoreReturn(s) ==
    /\ Running(s, "calculate_emotion_score")
    /\ sess[s].k > Len(EMOTION_COLUMNS)
    /\ LET result_df == sess[s].objs[sess[s].target]
       IN  Return(s, sess[s].objs, "calculate_emotion_score",
                  [i \in 1..Len(result_df.rows) |->
                     [date_entry |-> result_df.rows[i].date_entry,
                      emotion_score |-> result_df.rows[i].cells["emotion_score"]]])
    /\ UNCHANGED <<entries, ret, storeVars, chat, page>>

\* add_main_emotion_column(df) up to the copy: the guard returns df itself
MainBegin(s) ==
    /\ Running(s, "idle")
    /\ LET df == sess[s].objs["df"]
           target == DfCopy("df")
       IN  IF IsEmpty(df) \/ ~(\E col \in Labels : col \in df.columns)
           THEN Return(s, sess[s].objs, "add_main_emotion_column",
                       [added |-> FALSE, main_emotion |-> <<>>])
           ELSE sess' = [sess EXCEPT ![s] =
                    [objs |-> [sess[s].objs EXCEPT ![target] = df],
                     pc |-> "add_main_emotion_column", target |-> target, k |-> 0,
                     out |-> NoRet]]
    /\ UNCHANGED <<entries, ret, storeVars, chat, page>>

\* result_df['main_emotion'] = result_df.apply(get_max_emotion, axis=1); return
MainApply(s) ==
    /\ Running(s, "add_main_emotion_column")
    /\ LET result_df == sess[s].objs[sess[s].target]
           labels == [i \in 1..Len(result_df.rows) |-> get_max_emotion(result_df, i)]
       IN  Return(s, [sess[s].objs EXCEPT
                        ![sess[s].target] = WithColumn(result_df, "main_emotion", labels)],
                  "add_main_emotion_column",
                  [added |-> TRUE, main_emotion |-> labels])
    /\ UNCHANGED <<entries, ret, storeVars, chat, page>>

\* get_emotion_summary(df): it only reads the frame
SessionSummary(s) ==
    /\ Running(s, "idle")
    /\ Return(s, sess[s].objs, "get_emotion_summary",
              get_emotion_summary(sess[s].objs["df"]))
    /\ UNCHANGED <<entries, ret, storeVars, chat, page>>

\* calculate_dominant_emotion(df): it only reads the frame
SessionDominant(s) ==
    /\ Running(s, "idle")
    /\ Return(s, sess[s].objs, "calculate_dominant_emotion",
              calculate_dominant_emotion(sess[s].objs["df"]))
    /\ UNCHANGED <<entries, ret, storeVars, chat, page>>

InitSessions ==
    /\ entries \in RowsFrom(FieldPool, MaxScoreEntries)
    /\ ret = NoRet
    /\ SessionsLoaded
    /\ ChatInit
    /\ PageIdle
    /\ StoreIdle

NextSessions ==
    \E s \in Sessions :
        \/ ScoreBegin(s)
        \/ ScoreStep(s)
        \/ ScoreReturn(s)
        \/ MainBegin(s)
        \/ MainApply(s)
        \/ SessionSummary(s)
        \/ SessionDominant(s)

\* the calls of the sessions interleaved statement by statement
SpecSessions == InitSessions /\ [][NextSessions]_vars

----------------------------------------------------------------------------
(* Properties of the aggregator *)

Present(i, l) == l \in DOMAIN entries[i].emotions

AllSix(i) == DOMAIN entries[i].emotions = Labels

PresentLabels == {l \in Labels : \E i \in 1..Len(entries) : Present(i, l)}

\* the value of label l in entry i, 0 when the entry omits it
ValueOrZero(i, l) == IF Present(i, l) THEN entries[i].emotions[l] ELSE 0

\* over the entries 1..n that carry label l: the sum of its values, their number
RECURSIVE SumPresent(_, _)
SumPresent(l, n) == IF n = 0 THEN 0 ELSE SumPresent(l, n - 1) + ValueOrZero(n, l)

RECURSIVE CountPresent(_, _)
CountPresent(l, n) ==
    IF n = 0 THEN 0 ELSE CountPresent(l, n - 1) + (IF Present(n, l) THEN 1 ELSE 0)

\* m is the arithmetic mean of label l over the entries that carry it: the
\* decimal sum / count, as a double within 2^-51 of its value
IsMeanOf(m, l) ==
    /\ ~m.nan
    /\ CountPresent(l, Len(entries)) > 0
    /\ m.n = CountPresent(l, Len(entries))
    /\ m.K = SumPresent(l, Len(entries))
    /\ m.E <= 512 * m.K
    /\ -m.E <= 512 * m.K

\* the doubles of the values of label l in the entries 1..n of the sequence
\* es that carry it, added up in that order
RECURSIVE SumIn(_, _, _)
SumIn(es, l, n) ==
    IF n = 0 THEN Double(0)
    ELSE IF l \in DOMAIN es[n].emotions
         THEN DoubleAdd(SumIn(es, l, n - 1), Double(es[n].emotions[l]))
         ELSE SumIn(es, l, n - 1)

\* the mean of label l as computed from the entries in the order es
MeanIn(es, l) ==
    Quotient(SumIn(es, l, Len(es)),
             Cardinality({i \in 1..Len(es) : l \in DOMAIN es[i].emotions}))

\* the means of the labels present, as computed from the entries in the order es
MeansIn(es) == [l \in PresentLabels |-> MeanIn(es, l)]

\* x < y on two computed means
Below(x, y) ==
    \/ x.K * y.n < y.K * x.n
    \/ x.K * y.n = y.K * x.n /\ x.E * y.n < y.E * x.n

\* among the means ms, none is above that of l
IsMaximalIn(ms, l) == l \in DOMAIN ms /\ \A k \in DOMAIN ms : ~Below(ms[l], ms[k])

Position(l) == CHOOSE k \in 1..Len(EMOTION_COLUMNS) : EMOTION_COLUMNS[k] = l

\* joy*1.0 + love*0.8 + surprise*0.5 - fear*0.5 - sadness*0.8 - anger*0.9
WeightedSum(i) ==
    ValueOrZero(i, "joy") * 10 + ValueOrZero(i, "love") * 8
    + ValueOrZero(i, "surprise") * 5 - ValueOrZero(i, "fear") * 5
    - ValueOrZero(i, "sadness") * 8 - ValueOrZero(i, "anger") * 9

ScoreReturned == ret.fn = "calculate_emotion_score"
SummaryReturned == ret.fn = "get_emotion_summary"
DominantReturned == ret.fn = "calculate_dominant_emotion"

\* C1: when every entry of a non-empty collection carries all six labels,
\* calculate_emotion_score gives each entry the score
\* joy*1.0 + love*0.8 + surprise*0.5 - fear*0.5 - sadness*0.8 - anger*0.9
\* (1.0 for joy = 1.0 alone, 0.0 for all zeros).
C1_ScoreIsWeightedSum ==
    (ScoreReturned /\ Len(entries) > 0 /\ \A i \in 1..Len(entries) : AllSix(i))
    => /\ Len(ret.val) = Len(entries)
       /\ \A i \in 1..Len(entries) : ret.val[i].emotion_score = Num(WeightedSum(i))

\* joy = 1.0 alone scored 1.0 next to an all-zero entry scored 0.0
C1_Witness ==
    /\ ScoreReturned
    /\ Len(entries) = 2
    /\ entries[1].emotions = [l \in Labels |-> IF l = "joy" THEN 10 ELSE 0]
    /\ entries[2].emotions = [l \in Labels |-> 0]
    /\ ret.val[1].emotion_score = Num(100)
    /\ ret.val[2].emotion_score = Num(0)

\* C2: the mean get_emotion_summary reports for a label is the arithmetic mean
\* of the label's values over the entries that carry the label only.
C2_MeanOverPresentEntries ==
    SummaryReturned => \A l \in DOMAIN ret.val : IsMeanOf(ret.val[l], l)

\* love carried by 2 of 3 entries is averaged over 2
C2_Witness ==
    /\ SummaryReturned
    /\ Len(entries) = 3
    /\ CountPresent("love", 3) = 2
    /\ SumPresent("love", 3) = 8
    /\ ret.val["love"].K = 8
    /\ ret.val["love"].n = 2

\* C3: in calculate_emotion_score a label absent from an entry contributes 0
\* to that entry's score while its other labels still count, whatever the other
\* entries carry; an entry without any emotion label scores 0.0.
C3_AbsentLabelCountsZero ==
    ScoreReturned
    => \A i \in 1..Len(entries) : ret.val[i].emotion_score = Num(WeightedSum(i))

\* C8: the keys of the summary are exactly the labels present in at least one
\* entry; zero entries give the empty mapping.
C8_SummaryKeys ==
    SummaryReturned => DOMAIN ret.val = PresentLabels

\* love is in no entry and not in the summary, the five other labels are
C8_Witness ==
    /\ SummaryReturned
    /\ Len(entries) > 0
    /\ PresentLabels = NoLove
    /\ DOMAIN ret.val = NoLove

\* ret is a label whose computed mean no other label exceeds, with that mean
ReturnsMaximalLabelAndItsMean ==
    LET ms == MeansIn(entries)
    IN  /\ IsMaximalIn(ms, ret.val.label)
        /\ IsMeanOf(ret.val.mean, ret.val.label)
        /\ ret.val.mean = ms[ret.val.label]

\* C9 as stated: for every non-empty collection of entries,
\* calculate_dominant_emotion returns a label whose mean is greater than or
\* equal to the mean of every other label, with exactly that mean.
C9_Original ==
    (DominantReturned /\ Len(entries) > 0) => ReturnsMaximalLabelAndItsMean

\* C9 amended: for a collection of entries in which at least one of the six
\* labels is present, calculate_dominant_emotion returns a label whose mean is
\* greater than or equal to the mean of every other label, with exactly that mean.
C9_DominantIsMaxMean ==
    (DominantReturned /\ PresentLabels # {}) => ReturnsMaximalLabelAndItsMean

\* joy 0.8, 0.1, 0.1 with every other label 0: joy with the mean 1.0 / 3,
\* which is the double 0.333... just below a third
C9_Witness ==
    /\ DominantReturned
    /\ Len(entries) = 3
    /\ entries[1].emotions = [l \in Labels |-> IF l = "joy" THEN 8 ELSE 0]
    /\ entries[2].emotions = [l \in Labels |-> IF l = "joy" THEN 1 ELSE 0]
    /\ entries[3].emotions = [l \in Labels |-> IF l = "joy" THEN 1 ELSE 0]
    /\ ret.val.label = "joy"
    /\ ret.val.mean.K = 10
    /\ ret.val.mean.n = 3
    /\ ret.val.mean.E < 0

\* the entries in the order p
Reordered(p) == [i \in 1..Len(entries) |-> entries[p[i]]]

\* the label returned is the first, in declaration order, of the labels whose
\* computed mean is the maximum
FirstOfTheMaximal ==
    LET ms == MeansIn(entries)
    IN  /\ IsMaximalIn(ms, ret.val.label)
        /\ \A l \in DOMAIN ms :
             IsMaximalIn(ms, l) => Position(ret.val.label) <= Position(l)

\* every reordering of the entries gives the same label
SameLabelForEveryOrder ==
    \A p \in Permutations(1..Len(entries)) :
        calculate_dominant_emotion(FrameOf(Reordered(p))).label = ret.val.label

\* every reordering of the entries gives the same label and the same mean
SameForEveryOrder ==
    \A p \in Permutations(1..Len(entries)) :
        calculate_dominant_emotion(FrameOf(Reordered(p))) = ret.val

\* every value of every entry is 0 or 0.5: the sums of such values are exact
SumsAreExact ==
    \A i \in 1..Len(entries) :
        \A l \in DOMAIN entries[i].emotions : entries[i].emotions[l] \in {0, 5}

\* C10 as stated: among the labels that attain the maximum mean,
\* calculate_dominant_emotion returns the first in the order joy, sadness, love,
\* anger, fear, surprise, and it returns the same (here: at least the same
\* label) for every reordering of the entries.
C10_Original ==
    (DominantReturned /\ PresentLabels # {})
    => FirstOfTheMaximal /\ SameLabelForEveryOrder

\* C10 amended: among the labels that attain the maximum of the means as
\* computed, calculate_dominant_emotion returns the first in the order joy,
\* sadness, love, anger, fear, surprise; the result is the same for every
\* reordering of the entries when the column sums are exact (values 0 and 0.5).
C10_TieBreakByDeclarationOrder ==
    (DominantReturned /\ PresentLabels # {})
    => /\ FirstOfTheMaximal
       /\ SumsAreExact => SameForEveryOrder

\* love and anger tie above the other labels, love is returned
C10_Witness ==
    /\ DominantReturned
    /\ Len(entries) >= 2
    /\ LET ms == MeansIn(entries)
       IN  /\ IsMaximalIn(ms, "love")
           /\ IsMaximalIn(ms, "anger")
           /\ ~IsMaximalIn(ms, "joy")
    /\ SumPresent("love", Len(entries)) > 0
    /\ ret.val.label = "love"

\* C12: for zero entries, and for entries from which the summary is empty,
\* calculate_dominant_emotion returns the sentinel pair ("", 0.0).
C12_SentinelWithoutData ==
    (DominantReturned /\ PresentLabels = {}) => ret.val = Sentinel

\* two entries that carry none of the six labels: the sentinel is returned
C12_Witness ==
    /\ DominantReturned
    /\ Len(entries) = 2
    /\ PresentLabels = {}
    /\ get_emotion_summary(FrameOf(entries)) = <<>>
    /\ ret.val = Sentinel

\* C13: calculate_emotion_score returns exactly one (date, score) pair per
\* input entry, in the order of the input entries, each pair carrying the date
\* of the entry it was computed from.
C13_OnePairPerEntryInOrder ==
    ScoreReturned
    => /\ Len(ret.val) = Len(entries)
       /\ \A i \in 1..Len(entries) :
            /\ ret.val[i].date_entry = entries[i].date_entry
            /\ (\A j \in 1..Len(entries) : AllSix(j))
               => ret.val[i].emotion_score = Num(WeightedSum(i))

\* two entries with different scores: the pairs are (date 1, 1.0), (date 2, -0.9)
C13_Witness ==
    /\ ScoreReturned
    /\ Len(entries) = 2
    /\ entries[1].emotions = [l \in Labels |-> IF l = "joy" THEN 10 ELSE 0]
    /\ entries[2].emotions = [l \in Labels |-> IF l = "anger" THEN 10 ELSE 0]
    /\ ret.val = <<[date_entry |-> 1, emotion_score |-> Num(100)],
                   [date_entry |-> 2, emotion_score |-> Num(-90)]>>

\* the entries without the fields that are not one of the six labels
Strip(es) ==
    [i \in 1..Len(es) |->
        [date_entry |-> es[i].date_entry,
         emotions |-> [l \in DOMAIN es[i].emotions \cap Labels |-> es[i].emotions[l]]]]

\* C14: unknown labels and other fields are ignored: a collection of entries
\* gives the same mood scores, summary, dominant emotion and per-entry dominant
\* labels as the collection that agrees with it on the six labels and has no
\* other field, hence as every collection that agrees with it on the six labels.
C14_UnknownFieldsIgnored ==
    /\ ret.fn = "calculate_emotion_score"
       => ret.val = calculate_emotion_score(FrameOf(Strip(entries)))
    /\ ret.fn = "get_emotion_summary"
       => ret.val = get_emotion_summary(FrameOf(Strip(entries)))
    /\ ret.fn = "calculate_dominant_emotion"
       => ret.val = calculate_dominant_emotion(FrameOf(Strip(entries)))
    /\ ret.fn = "add_main_emotion_column"
       => ret.val = add_main_emotion_column(FrameOf(Strip(entries)))

\* an entry whose greatest value is that of the unknown label disgust: the
\* summary has the keys joy and anger only
C14_Witness ==
    /\ ret.fn = "get_emotion_summary"
    /\ Len(entries) = 2
    /\ entries[1].emotions = [joy |-> 5, anger |-> 5, disgust |-> 9]
    /\ entries[2].emotions = [joy |-> 0, anger |-> 5, id |-> 7, content |-> "a"]
    /\ Strip(entries) # entries
    /\ DOMAIN ret.val = {"joy", "anger"}

\* what the function fn returns when it runs alone on the entries
Alone(fn) ==
    CASE fn = "calculate_emotion_score" -> calculate_emotion_score(FrameOf(entries))
      [] fn = "get_emotion_summary" -> get_emotion_summary(FrameOf(entries))
      [] fn = "calculate_dominant_emotion" -> calculate_dominant_emotion(FrameOf(entries))
      [] fn = "add_main_emotion_column" -> add_main_emotion_column(FrameOf(entries))

\* C15: the aggregator functions leave the frame they are given unchanged and
\* keep nothing between calls: in every interleaving of the calls of several
\* sessions, the frame of each session stays the one built from the entries and
\* each completed call has returned what the function returns alone on them.
C15_PureUnderInterleaving ==
    \A s \in Sessions :
        /\ sess[s].objs["df"] = FrameOf(entries)
        /\ sess[s].out.fn # "none" => sess[s].out.val = Alone(sess[s].out.fn)

\* session 1 is inside the loop of calculate_emotion_score, its copy holding a
\* partial score, while session 2 has completed add_main_emotion_column
C15_Witness ==
    /\ Len(entries) = 2
    /\ sess[1].pc = "calculate_emotion_score"
    /\ sess[1].k = 3
    /\ "emotion_score" \in sess[1].objs["copy"].columns
    /\ "emotion_score" \notin sess[1].objs["df"].columns
    /\ sess[2].pc = "idle"
    /\ sess[2].out.fn = "add_main_emotion_column"
    /\ sess[2].out.val.added

MainReturned == ret.fn = "add_main_emotion_column"

\* the labels entry i carries
LabelsOf(i) == {l \in Labels : Present(i, l)}

\* the label of entry i with the greatest value among those it carries, the
\* first in declaration order of those; "" when it carries none
GreatestPresent(i) ==
    IF LabelsOf(i) = {} THEN ""
    ELSE CHOOSE l \in LabelsOf(i) :
            \A k \in LabelsOf(i) :
                \/ entries[i].emotions[k] < entries[i].emotions[l]
                \/ entries[i].emotions[k] = entries[i].emotions[l]
                   /\ Position(l) <= Position(k)

\* C11: for each entry add_main_emotion_column / get_max_emotion yields the
\* label with the greatest value among the labels present in that entry, the
\* first in declaration order among those attaining the maximum, and the empty
\* string when the entry has no label present.
C11_PerEntryDominantLabel ==
    (MainReturned /\ ret.val.added)
    => \A i \in 1..Len(entries) : ret.val.main_emotion[i] = GreatestPresent(i)

----------------------------------------------------------------------------
(* Properties of the journal entry store client *)

RowsOfDate(rows, date) == {r \in rows : r.date_entry = isoformat(date)}

Ids(rows) == {r.id : r \in rows}

\* writer w's save_or_update_journal_entry has returned with success
Succeeded(w) == Len(last[w]) > 0 /\ last[w][1].outcome = "returned" /\ last[w][1].success

\* writer w's save found an entry at its lookup and has just returned
UpdateReturns(w) ==
    /\ pc[w] = "lookedUp"
    /\ Len(existing[w]) > 0
    /\ pc'[w] = "idle"
    /\ last'[w][1].outcome = "returned"

\* C4: re-saving content for a date that already has an entry changes that
\* entry's content in place: the date keeps its number of rows, the entry keeps
\* its id, and no row of another date changes.
C4_UpdateInPlace ==
    [][UpdateReturns(1) =>
         LET date == call[1][1].date
             text == call[1][1].text
         IN  /\ Cardinality(RowsOfDate(store', date)) = Cardinality(RowsOfDate(store, date))
             /\ Ids(RowsOfDate(store', date)) = Ids(RowsOfDate(store, date))
             /\ existing[1][1].id \in Ids(RowsOfDate(store', date))
             /\ \A r \in RowsOfDate(store', date) : r.content = text
             /\ store' \ RowsOfDate(store', date) = store \ RowsOfDate(store, date)
             /\ last'[1][1] = Returned(TRUE, Some(existing[1][1].id), TRUE)]_vars

\* an entry was found with another content, the save returned, the entry has
\* the new content under its old id and the other date has kept its row
C4_Witness ==
    /\ pc[1] = "idle"
    /\ Succeeded(1)
    /\ last[1][1].was_update
    /\ Len(existing[1]) > 0
    /\ existing[1][1].content # call[1][1].text
    /\ [existing[1][1] EXCEPT !.content = call[1][1].text] \in store
    /\ Cardinality(RowsOfDate(store, call[1][1].date)) = 1
    /\ Cardinality(store) = 2

\* C5: with a single writer and a store that starts with at most one entry per
\* date, the store holds at most one entry per date after any sequence of
\* save_or_update_journal_entry calls.
C5_OneEntryPerDate ==
    \A date \in Dates : Cardinality(RowsOfDate(store, date)) <= 1

\* a save has inserted an entry for a date, a later one has updated it
C5_Witness ==
    /\ pc[1] = "idle"
    /\ Succeeded(1)
    /\ last[1][1].was_update
    /\ \E r \in RowsOfDate(store, call[1][1].date) : r.id >= Cardinality(Dates) + 1
    /\ \A date \in Dates : Cardinality(RowsOfDate(store, date)) = 1

\* writer w's save found no entry for its date and inserted one
Inserted(w) == pc[w] = "idle" /\ Succeeded(w) /\ ~last[w][1].was_update

\* C6: two concurrent save_or_update_journal_entry calls for the same date are
\* not serialized: when both found no entry at their lookup, each inserts its
\* own row, and the date has two entries.
C6_RacingSavesBothInsert ==
    \A w \in Writers, v \in Writers :
        (w # v /\ Inserted(w) /\ Inserted(v) /\ call[w][1].date = call[v][1].date)
        => /\ last[w][1].entry_id # last[v][1].entry_id
           /\ {last[w][1].entry_id[1], last[v][1].entry_id[1]}
                 \subseteq Ids(RowsOfDate(store, call[w][1].date))
           /\ Cardinality(RowsOfDate(store, call[w][1].date)) >= 2

\* both writers looked up the date before either inserted; both have inserted
C6_Witness ==
    /\ Inserted(1)
    /\ Inserted(2)
    /\ call[1][1].date = call[2][1].date
    /\ Cardinality(RowsOfDate(store, call[1][1].date)) = 2

\* writer w's last fetch since the last write was for the date of its last save
FetchedSavedDate(w) ==
    /\ Len(fetched[w]) > 0
    /\ Len(call[w]) > 0
    /\ fetched[w][1].date = call[w][1].date

\* C7: for a single writer, after save_or_update_journal_entry(d, t) succeeds,
\* get_journal_entry_by_date(d) returns an entry whose content is exactly t, and
\* a repeated fetch with no write in between returns the same entry.
C7_ReadAfterWrite ==
    /\ [](  (pc[1] = "idle" /\ Succeeded(1) /\ FetchedSavedDate(1))
            => /\ Len(fetched[1][1].entry) > 0
               /\ fetched[1][1].entry[1].content = call[1][1].text)
    /\ [][(/\ Len(fetched[1]) > 0
           /\ Len(fetched'[1]) > 0
           /\ fetched'[1][1].date = fetched[1][1].date)
          => fetched'[1] = fetched[1]]_vars

\* a save has replaced the content of an entry and the fetch returns the new one
C7_Witness ==
    /\ pc[1] = "idle"
    /\ Succeeded(1)
    /\ FetchedSavedDate(1)
    /\ Len(existing[1]) > 0
    /\ existing[1][1].content # call[1][1].text
    /\ fetched[1][1].entry = Some([existing[1][1] EXCEPT !.content = call[1][1].text])

\* writer w's save_or_update_journal_entry ends in this step, after its lookup
SaveEnds(w) == pc[w] = "lookedUp" /\ pc'[w] = "idle"

\* writer w's save_or_update_journal_entry returns in this step
SaveReturns(w) == SaveEnds(w) /\ last'[w][1].outcome = "returned"

\* the step adds one row, with a new id, the date and the text of w's call
IsInsert(w) ==
    \E r \in store' \ store :
        /\ store' = store \cup {r}
        /\ r.id \notin Ids(store)
        /\ r.date_entry = isoformat(call[w][1].date)
        /\ r.content = call[w][1].text

\* the step gives the rows of the date of w's call the text of the call and
\* changes nothing else
IsUpdate(w) ==
    /\ Ids(store') = Ids(store)
    /\ Cardinality(store') = Cardinality(store)
    /\ \A r \in store :
         [r EXCEPT !.content = IF r.date_entry = isoformat(call[w][1].date)
                               THEN call[w][1].text ELSE @] \in store'

\* the one write of the step is the insert when w's lookup found nothing, the
\* update when it found an entry, and the third component tells which
WriteMatchesLookup(w) ==
    IF Len(existing[w]) = 0
    THEN IsInsert(w) /\ ~last'[w][1].was_update
    ELSE IsUpdate(w) /\ last'[w][1].was_update

C17_NoEntryDeleted ==
    [][Ids(store) \subseteq Ids(store')]_vars

\* an entry was inserted next to the one the store had, a save has updated an
\* entry, the chat page has called the relay: the two ids are there
C17_Witness ==
    /\ Ids(store) = {1, 3}
    /\ pc[1] = "idle"
    /\ Succeeded(1)
    /\ last[1][1].was_update
    /\ chat.last.outcome # "none"

\* C18: a relay response with a success status whose body is not parseable
\* JSON makes send_message_to_llm return (False, "Failed to parse webhook
\* response ..."), which is not the "Webhook request failed ..." of the
\* transport and HTTP errors.
C18_MalformedResponseReportedApart ==
    /\ chat.last.outcome = "NotJSON"
       => /\ ~chat.last.result.success
          /\ chat.last.result.text = Str(<<"Failed to parse webhook response">>)
    /\ chat.last.outcome \in {"ConnectionError", "HTTPError"}
       => /\ ~chat.last.result.success
          /\ chat.last.result.text = Str(<<"Webhook request failed">>)

\* C19: no remote-call failure propagates as an exception out of
\* save_or_update_journal_entry: every call that has ended has returned.
C19_RemoteFailuresCaught ==
    \A w \in Writers : Len(last[w]) > 0 => last[w][1].outcome = "returned"

\* C20: a store operation that fails never returns the value returned for a
\* successful query that found no rows: the frame of get_emotion_scores (with
\* the type of its date column) is not the one of an empty response, the entry
\* count of the home page is not 0.
C20_FailureIsNotNoRows ==
    /\ (ret.fn = "get_emotion_scores" /\ ret.failed /\ ret.outcome = "returned")
       => [val |-> ret.val, date_dtype |-> ret.date_dtype]
             # [val |-> EmptyFrame, date_dtype |-> "datetime64[ns]"]
    /\ (ret.fn = "app.main" /\ ret.failed) => ret.val # 0

----------------------------------------------------------------------------
(* Properties of the journal page *)

\* SUPABASE_URL or SUPABASE_KEY is missing or empty
CredentialsMissing == \E key \in DOMAIN page.env : page.env[key] \in {"missing", ""}

\* a run of the page has ended
RunEnded == page.run.pc = "idle" /\ page.run.status # "none"

\* the messages of the run that are st.error calls of init_supabase
InitErrors ==
    SelectSeq(page.run.shown,
              LAMBDA m : m \in {"error: ValueError", "error: ConnectionError"})

\* C21: with the store URL or key missing or empty, no request of a page run
\* reaches the store and nothing is written; the run ends in init_supabase,
\* which has shown the error exactly once and halted the page exactly once.
C21_MissingCredentialsHaltBeforeAnyRequest ==
    CredentialsMissing =>
        /\ page.run.requests = <<>>
        /\ page.run.status # "none" => store = page.run.before
        /\ page.run.pc # "idle" => page.run.shown = <<>> /\ page.run.stops = 0
        /\ RunEnded =>
              /\ page.run.status = "halted"
              /\ page.run.shown = <<"error: ValueError">>
              /\ Len(InitErrors) = 1
              /\ page.run.stops = 1

\* a run with an empty key has ended, halted, in a store that holds an entry
C21_Witness ==
    /\ page.env = [SUPABASE_URL |-> "set", SUPABASE_KEY |-> ""]
    /\ RunEnded
    /\ page.run.status = "halted"
    /\ store # {}

----------------------------------------------------------------------------
(* Properties of the chat relay client and the chat page *)

\* the last run of the chat page called the relay
RelayCalled == chat.last.handler \in {"user_input", "You bet"}

\* the relay answered the last call with an object whose "output" is a text
AnsweredWithText ==
    /\ RelayCalled
    /\ Len(chat.last.answer) > 0
    /\ chat.last.answer[1].type = "str"

LastMessage == chat.messages[Len(chat.messages)]

\* C22: the relay call of a user input posts {sessionId, chatInput} with the
\* session id of the page and the text the user typed; when the relay answers
\* with an object that has an output text, the call returns (True, that text)
\* and the assistant message kept in the history is that text, unchanged.
C22_ReplyVerbatim ==
    chat.last.handler = "user_input" =>
        /\ DOMAIN chat.last.result.payload = {"sessionId", "chatInput"}
        /\ chat.last.result.payload.sessionId = chat.session_id
        /\ \E k \in 1..Len(chat.messages) :
              /\ chat.messages[k].role = "user"
              /\ \A j \in (k + 1)..Len(chat.messages) : chat.messages[j].role # "user"
              /\ chat.last.result.payload.chatInput = chat.messages[k].content
        /\ AnsweredWithText =>
              /\ chat.last.result.success
              /\ chat.last.result.text = chat.last.answer[1]
              /\ LastMessage = [role |-> "assistant", content |-> chat.last.answer[1]]

\* the relay's text has blanks the typing effect would move, and is kept as it is
C22_Witness ==
    /\ chat.last.handler = "user_input"
    /\ AnsweredWithText
    /\ chat.last.answer[1] = Str(<<" ", "a", " ", " ", "b">>)
    /\ chat.last.result.payload.chatInput = Str(<<"a", " ", " ", "b">>)
    /\ LastMessage.content = Str(<<" ", "a", " ", " ", "b">>)

\* the error texts of send_message_to_llm, each given by its prefix
ErrorTexts ==
    {Str(<<"Webhook request failed">>), Str(<<"Failed to parse webhook response">>),
     Str(<<"Unexpected error">>)}

\* C23: whatever the relay call meets, send_message_to_llm raises nothing and
\* returns a pair: (False, an error text) for a transport error, an error
\* status, a body that is not JSON and a body that is not an object, and
\* success True only for a success status with a body that parsed.
C23_NeverRaises ==
    RelayCalled =>
        /\ ~chat.last.result.raised
        /\ chat.last.result.success \in BOOLEAN
        /\ chat.last.outcome \in {"ConnectionError", "HTTPError", "NotJSON", "NotAnObject"}
              => ~chat.last.result.success /\ chat.last.result.text \in ErrorTexts
        /\ chat.last.result.success => chat.last.outcome \in {"NoOutput", "Output"}

\* the body was JSON but no object: the AttributeError of .get was caught
C23_Witness ==
    /\ RelayCalled
    /\ chat.last.outcome = "NotAnObject"
    /\ ~chat.last.result.success
    /\ chat.last.result.text = Str(<<"Unexpected error">>)

\* the rows the store holds for the selected date with the text of the run
SavedRows ==
    {row \in store : /\ row.date_entry = isoformat(page.selected_date[1])
                     /\ row.content = page.run.text}

\* the insert and update requests of the run
WriteRequests == SelectSeq(page.run.requests, LAMBDA q : q.op \in {"insert", "update"})

AddReturned == Len(page.run.saved) > 0 /\ ~page.run.saved[1].was_update

IsReset ==
    \/ chat'.last.handler = "Let me get out of here"
    \/ chat'.last.handler = "You bet" /\ chat'.last.run = "completed"
    \/ chat'.last.handler = "Bye" /\ ~chat'.show_confirmation

\* the bits of os.urandom that uuid4 keeps
KeptBits(random) == random \div 2

CallsRelay == chat'.last.handler \in {"user_input", "You bet"}

\* C27: the session id changes only in a reset; a reset also empties the
\* history and leaves show_confirmation False; every relay request, the one
\* of "You bet" included, carries the session id the page has when it is
\* sent, so that all requests between two resets carry the same one.
C27_SessionIdChangesOnlyOnReset ==
    [][/\ chat'.session_id # chat.session_id => IsReset
       /\ IsReset => chat'.messages = <<>> /\ ~chat'.show_confirmation
       /\ CallsRelay => chat'.last.result.payload.sessionId = chat.session_id]_vars

\* "You bet" has sent its request with the session id of the conversation
\* and then installed another
C27_Witness ==
    /\ chat.last.handler = "You bet"
    /\ chat.last.result.payload = [sessionId |-> [hex |-> 3], chatInput |-> SaveRequest]
    /\ chat.session_id = [hex |-> 1]
    /\ chat.messages = <<>>
    /\ ~chat.show_confirmation

\* C28: between two runs of the chat page show_confirmation is True only if
\* the history holds a message.
C28_ConfirmationOnlyWithHistory == chat.show_confirmation => Len(chat.messages) > 0

\* the user has typed a message while the confirmation was shown
C28_Witness ==
    /\ chat.show_confirmation
    /\ chat.last.handler = "user_input"
    /\ Len(chat.messages) = 4

\* the history is (user, assistant), (user, assistant), ...
IsPairs(messages) ==
    /\ Len(messages) % 2 = 0
    /\ \A k \in 1..Len(messages) :
          messages[k].role = IF k % 2 = 1 THEN "user" ELSE "assistant"

\* the last run of the page went to its end
RunCompleted == chat.last.handler = "none" \/ chat.last.handler \in {"Bye", "Let me get out of here"}
                    \/ chat.last.run = "completed"

\* C29: after every completed run of the chat page the history is a sequence
\* of (user, assistant) pairs, and the assistant message of the user input
\* just handled is the relay's reply on success, "Error: " and the error
\* text on failure.
C29_HistoryIsPairs ==
    RunCompleted =>
        /\ IsPairs(chat.messages)
        /\ chat.last.handler = "user_input" =>
              LastMessage.content =
                  IF chat.last.result.success THEN chat.last.result.text
                  ELSE Str(<<"Error: ">> \o chat.last.result.text.chars)

\* the rows the store held for the selected date when the run began; the
\* page is the only writer, and a run writes after it has drawn the form
StoredForSelectedDate == SelectByDate(page.run.before, isoformat(page.selected_date[1]))

\* C30: whenever the entry form is displayed its prefilled text is the
\* content stored for the selected date, empty when there is none, and its
\* heading is "Update" exactly when there is a stored entry; also when the
\* form is reopened after a successful save on the same date.
C30_FormAgreesWithStore ==
    page.run.form # None =>
        IF StoredForSelectedDate = {}
        THEN page.run.form[1] = [initial_text |-> "", heading |-> "New"]
        ELSE /\ page.run.form[1].heading = "Update"
             /\ \E row \in StoredForSelectedDate :
                   page.run.form[1].initial_text = row.content

====
